---- MODULE Spec2Model ----
(***************************************************************************)
(* The /mcp endpoint of the CFBD basketball MCP server (src/server.js).    *)
(*                                                                         *)
(* One request is followed from its receipt to its response.  A handler    *)
(* runs to completion between two awaits, so each action is one such run:  *)
(* HandleRequest is the code from line 26 up to either a response or the   *)
(* `await fetch` of a tool, and the Upstream... / FetchTimeout actions are *)
(* the rest of the tool handler once the fetch has settled.                *)
(*                                                                         *)
(* JavaScript objects are functions whose DOMAIN is the set of properties  *)
(* that are present; an absent property reads as undefined.  Text is kept  *)
(* as text: template literals are string concatenations.  The basketball   *)
(* glyph that starts the headings is written "(bb)", the module being      *)
(* plain ASCII.                                                            *)
(***************************************************************************)
EXTENDS Integers, Sequences, FiniteSets, TLC

VARIABLES
    MCP_API_KEY,          \* process.env.MCP_API_KEY ("" stands for unset)
    CFBD_BASKETBALL_KEY,  \* process.env.CFBD_BASKETBALL_KEY ("" stands for unset)
    pc,                   \* "idle", "awaiting" (suspended in await fetch), "responded"
    req,                  \* the request being handled
    pending,              \* the fetch the handler is suspended on
    upstream,             \* the upstream GETs issued for this request, in order
    snapshot,             \* what the upstream answered to the fetch
    sent,                 \* the responses written for this request, in order
    replayed              \* the text a repeat of the request got (see Replay)

vars == <<MCP_API_KEY, CFBD_BASKETBALL_KEY, pc, req, pending, upstream,
          snapshot, sent, replayed>>

----------------------------------------------------------------------------
(* Bounds of the model. *)

\* Longest upstream array.
MaxRecords == 2
\* How many times the calendar year changes while the server runs.
MaxYearChanges == 1

(* Program constants. *)
DefaultYear == 2025
FetchTimeoutMs == 10000
Unauthorized == -32001
MethodNotFound == -32601
InternalError == -32603
HttpOk == 200
HttpUnauthorized == 401
HttpInternalError == 500

----------------------------------------------------------------------------
(* JavaScript values. *)

Has(obj, p) == p \in DOMAIN obj

\* `${obj.p}` : an absent property prints as undefined.
Show(obj, p) == IF Has(obj, p) THEN obj[p] ELSE "undefined"

\* The empty object {}.
EmptyObject == [p \in {} |-> ""]

\* String.prototype.toLowerCase on the names the model uses.
toLowerCase(s) ==
    CASE s \in {"Oklahoma", "OKLAHOMA", "oklahoma"} -> "oklahoma"
      [] s \in {"Kansas", "KANSAS", "kansas"} -> "kansas"
      [] s \in {"Jalon Moore", "JALON MOORE", "jalon moore"} -> "jalon moore"
      [] s \in {"Jalon Moore Jr", "JALON MOORE JR", "jalon moore jr"} -> "jalon moore jr"
      [] s \in {"Moore", "MOORE", "moore"} -> "moore"
      [] s \in {"Sam Godwin", "SAM GODWIN", "sam godwin"} -> "sam godwin"
      [] OTHER -> s

\* String.prototype.toUpperCase on the names the model uses.
toUpperCase(s) ==
    CASE s \in {"Oklahoma", "OKLAHOMA", "oklahoma"} -> "OKLAHOMA"
      [] s \in {"Kansas", "KANSAS", "kansas"} -> "KANSAS"
      [] s \in {"Jalon Moore", "JALON MOORE", "jalon moore"} -> "JALON MOORE"
      [] s \in {"Jalon Moore Jr", "JALON MOORE JR", "jalon moore jr"} -> "JALON MOORE JR"
      [] s \in {"Moore", "MOORE", "moore"} -> "MOORE"
      [] s \in {"Sam Godwin", "SAM GODWIN", "sam godwin"} -> "SAM GODWIN"
      [] OTHER -> s

\* String.prototype.includes.
includes(s, t) ==
    \E i \in 1..(Len(s) - Len(t) + 1) : SubSeq(s, i, i + Len(t) - 1) = t

----------------------------------------------------------------------------
(* The requests the model draws from. *)

HttpMethods == {"GET", "POST", "PUT"}

Secret == "s3cret"

\* The Authorization header: absent, right, wrong.
Headers == {EmptyObject,
            [authorization |-> "Bearer " \o Secret],
            [authorization |-> "Bearer wrong"]}

ToolNames == {"get_basketball_score", "get_basketball_player_stats",
              "get_basketball_team_stats", "get_basketball_schedule",
              "get_basketball_rankings", "get_basketball_shooting_stats",
              "get_basketball_roster"}

UnknownTool == "get_basketball_xyz"

\* An object with the optional property p: absent, or one of vals.
Optional(p, vals) == {EmptyObject} \cup {[x \in {p} |-> v] : v \in vals}

\* params.arguments: {team?, year?, query?}.
Arguments ==
    {t @@ y @@ q : t \in Optional("team", {"Oklahoma", "kansas"}),
                   y \in Optional("year", {2024, 2025}),
                   q \in Optional("query", {"Jalon Moore"})}

\* params of a tools/call: {name?, arguments?}.
CallParams ==
    {n @@ a : n \in Optional("name", ToolNames \cup {UnknownTool}),
              a \in Optional("arguments", Arguments)}

\* params sent along with the other methods.
OtherParams ==
    {[name |-> "get_basketball_score"],
     [name |-> UnknownTool, arguments |-> [team |-> "kansas"]]}

Ids == {"1", "null"}

\* The parsed JSON bodies {method?, params?, id?} of a tools/call.
CallBodies ==
    {m @@ p @@ i : m \in {[method |-> "tools/call"]},
                   p \in Optional("params", CallParams),
                   i \in Optional("id", Ids)}

\* The parsed JSON bodies of the other methods, and of no method.
OtherBodies ==
    {m @@ p @@ i : m \in Optional("method", {"initialize", "tools/list", "ping"}),
                   p \in Optional("params", OtherParams),
                   i \in Optional("id", Ids)}

\* A few calls, for the HTTP methods that are neither GET nor POST.
FewCallBodies ==
    {[method |-> "tools/call", id |-> "1",
      params |-> [name |-> "get_basketball_roster",
                  arguments |-> [team |-> "Oklahoma"]]],
     [method |-> "tools/call",
      params |-> [name |-> UnknownTool, arguments |-> EmptyObject]]}

\* An HTTP request on /mcp; req.body is undefined when no body was parsed.
Requests ==
    {[method |-> m, headers |-> h] @@ b :
        m \in {"GET", "POST"}, h \in Headers,
        b \in Optional("body", CallBodies \cup OtherBodies)}
    \cup
    {[method |-> m, headers |-> h] @@ b :
        m \in HttpMethods \ {"GET", "POST"}, h \in Headers,
        b \in Optional("body", FewCallBodies \cup OtherBodies)}

NoRequest == [method |-> "NONE", headers |-> EmptyObject]

----------------------------------------------------------------------------
(* Responses. *)

\* A JavaScript value used as a condition: "" (and undefined) are falsy.
Truthy(s) == s # ""

\* req.body?.id, were an undefined id written as null.
BodyIdOrNull(r) ==
    IF Has(r, "body") /\ Has(r.body, "id") THEN [id |-> r.body.id] ELSE [id |-> "null"]

\* req.body?.id, as JSON.stringify keeps it: the property is dropped when
\* it is undefined.
BodyId(r) ==
    IF Has(r, "body") /\ Has(r.body, "id") THEN [id |-> r.body.id] ELSE EmptyObject

\* res.status(status).json(body)
Send(status, body) == [kind |-> "send", status |-> status, body |-> body]

RpcResult(r, result) == [jsonrpc |-> "2.0", result |-> result] @@ BodyId(r)

RpcError(r, code, message) ==
    [jsonrpc |-> "2.0", error |-> [code |-> code, message |-> message]] @@ BodyId(r)

\* { content: [{ type: 'text', text }] }
TextContent(text) == [content |-> <<[type |-> "text", text |-> text]>>]

TextResult(r, text) == Send(HttpOk, RpcResult(r, TextContent(text)))

ReadyProbe == [service |-> "Basketball MCP Server", status |-> "ready"]

InitializeResult ==
    [protocolVersion |-> "2025-06-18",
     capabilities |-> [tools |-> EmptyObject],
     serverInfo |-> [name |-> "cfbd-basketball", version |-> "1.0.0"]]

\* A tool definition, were no argument required.
ToolDefinitionNothingRequired(name, properties) ==
    [name |-> name,
     inputSchema |-> [type |-> "object", properties |-> properties,
                      required |-> <<>>]]

\* { name, description, inputSchema: { type, properties, required: ['team'] } }
ToolDefinition(name, properties) ==
    [name |-> name,
     inputSchema |-> [type |-> "object", properties |-> properties,
                      required |-> <<"team">>]]

ToolCatalog ==
    <<ToolDefinition("get_basketball_score", {"team", "year"}),
      ToolDefinition("get_basketball_player_stats", {"team", "year", "query"}),
      ToolDefinition("get_basketball_team_stats", {"team", "year"}),
      ToolDefinition("get_basketball_schedule", {"team", "year"}),
      ToolDefinition("get_basketball_rankings", {"team", "year"}),
      ToolDefinition("get_basketball_shooting_stats", {"team", "year", "query"}),
      ToolDefinition("get_basketball_roster", {"team", "year"})>>

KeyNotConfigured == "Error: CFBD Basketball API key not configured"

----------------------------------------------------------------------------
(* The handler up to its first await (lines 26-187 and 813-835). *)

\* The auth check, were a header of any value let through.
AuthRefusedWhenMissing(r) ==
    Truthy(MCP_API_KEY) /\ ~Has(r.headers, "authorization")

\* The auth check, were it left out.
AuthSkipped(r) == FALSE

\* The auth check refuses the request.
AuthRefused(r) ==
    /\ Truthy(MCP_API_KEY)
    /\ \/ ~Has(r.headers, "authorization")
       \/ r.headers.authorization # "Bearer " \o MCP_API_KEY

\* The outer catch.
OuterCatch(r, message) ==
    Send(HttpInternalError, RpcError(r, InternalError, message))

\* (args.team || 'oklahoma').toLowerCase()
TeamOf(args) ==
    toLowerCase(IF Has(args, "team") /\ Truthy(args.team) THEN args.team ELSE "oklahoma")

\* args.year || 2025
YearOf(args) ==
    IF Has(args, "year") /\ args.year # 0 THEN args.year ELSE DefaultYear

ApiBase == "https://api.collegebasketballdata.com"

EndpointOf(name) ==
    CASE name = "get_basketball_score" -> "/games"
      [] name = "get_basketball_player_stats" -> "/stats/player/season"
      [] name = "get_basketball_team_stats" -> "/stats/team/season"
      [] name = "get_basketball_schedule" -> "/games"
      [] name = "get_basketball_rankings" -> "/rankings"
      [] name = "get_basketball_shooting_stats" -> "/stats/player/shooting/season"
      [] name = "get_basketball_roster" -> "/teams/roster"

\* The fetch, were it given no abort signal (0: no timeout is armed).
FetchUnbounded(name, team, year) ==
    [kind |-> "fetch",
     tool |-> name,
     url |-> ApiBase \o EndpointOf(name) \o "?team=" \o team
                 \o "&season=" \o ToString(year),
     authorization |-> "Bearer " \o CFBD_BASKETBALL_KEY,
     timeout |-> 0]

\* fetch(url, { headers: { Authorization }, signal: AbortSignal.timeout(10000) })
Fetch(name, team, year) ==
    [kind |-> "fetch",
     tool |-> name,
     url |-> ApiBase \o EndpointOf(name) \o "?team=" \o team
                 \o "&season=" \o ToString(year),
     authorization |-> "Bearer " \o CFBD_BASKETBALL_KEY,
     timeout |-> FetchTimeoutMs]

\* The tools/call branch, from the destructuring of params to the fetch.
CallTool(r) ==
    IF ~Has(r.body, "params")
    THEN OuterCatch(r, "Cannot destructure property 'name' of 'params' as it is undefined.")
    ELSE IF ~Truthy(CFBD_BASKETBALL_KEY)
    THEN TextResult(r, KeyNotConfigured)
    ELSE IF ~Has(r.body.params, "arguments")
    THEN OuterCatch(r, "Cannot read properties of undefined (reading 'team')")
    ELSE IF Has(r.body.params, "name") /\ r.body.params.name \in ToolNames
    THEN Fetch(r.body.params.name, TeamOf(r.body.params.arguments),
               YearOf(r.body.params.arguments))
    ELSE Send(HttpOk, RpcError(r, MethodNotFound,
                               "Unknown tool: " \o Show(r.body.params, "name")))

\* The branch on the JSON-RPC method.
DispatchMethod(r) ==
    IF ~Has(r, "body")
    THEN OuterCatch(r, "Cannot destructure property 'method' of 'req.body' as it is undefined.")
    ELSE IF Has(r.body, "method") /\ r.body.method = "initialize"
    THEN Send(HttpOk, RpcResult(r, InitializeResult))
    ELSE IF Has(r.body, "method") /\ r.body.method = "tools/list"
    THEN Send(HttpOk, RpcResult(r, [tools |-> ToolCatalog]))
    ELSE IF Has(r.body, "method") /\ r.body.method = "tools/call"
    THEN CallTool(r)
    ELSE Send(HttpOk, RpcError(r, MethodNotFound,
                               "Unknown method: " \o Show(r.body, "method")))

\* app.all('/mcp'): what the handler does with request r before it first
\* suspends: a response, or the fetch of a tool.
Dispatch(r) ==
    IF r.method = "GET"
    THEN Send(HttpOk, ReadyProbe)
    ELSE IF AuthRefused(r)
    THEN Send(HttpUnauthorized, RpcError(r, Unauthorized, "Unauthorized"))
    ELSE DispatchMethod(r)

----------------------------------------------------------------------------
(* Numbers and sequences as the formatters use them. *)

\* JSON null where a number is expected.
JsonNull == 0 - 1

\* `${n}` for a number that may be absent (undefined) or null.
ShowNumber(obj, p) ==
    IF ~Has(obj, p) THEN "undefined"
    ELSE IF obj[p] = JsonNull THEN "null"
    ELSE ToString(obj[p])

\* (n / d).toFixed(1) for integers n >= 0 and d > 0.  Values the model
\* writes in thousandths are passed with d = 1000.
toFixed1(n, d) ==
    LET tenths == (20 * n + d) \div (2 * d)
    IN  ToString(tenths \div 10) \o "." \o ToString(tenths % 10)

\* Array.prototype.filter is SelectSeq.

\* The sequence without its i-th element.
Without(s, i) == SubSeq(s, 1, i - 1) \o SubSeq(s, i + 1, Len(s))

\* a has a greater sort key than b; a key is a fraction <<n, d>>, d > 0.
Greater(a, b) == a[1] * b[2] > b[1] * a[2]

\* Array.prototype.sort((a, b) => key(b) - key(a)): descending and stable.
\* keys[i] is the key of items[i].
RECURSIVE sortDescending(_, _)
sortDescending(items, keys) ==
    IF items = <<>> THEN <<>>
    ELSE LET i == CHOOSE i \in 1..Len(items) :
                      /\ \A j \in 1..Len(items) : ~Greater(keys[j], keys[i])
                      /\ \A j \in 1..(i - 1) : Greater(keys[i], keys[j])
         IN  <<items[i]>> \o sortDescending(Without(items, i), Without(keys, i))

\* Array.prototype.slice(0, n)
slice(s, n) == SubSeq(s, 1, IF Len(s) < n THEN Len(s) ELSE n)

\* The lines Line(i) for i = 1..n, concatenated (a forEach that appends).
RECURSIVE Lines(_, _)
Lines(lines, n) == IF n = 0 THEN "" ELSE Lines(lines, n - 1) \o lines[n]

\* What a formatter ends with: text to send, or an exception thrown inside
\* the tool's try block.
Text(t) == [ok |-> TRUE, text |-> t]
Throws(message) == [ok |-> FALSE, message |-> message]

\* `${year-1}-${year}`
SeasonSpan(year) == ToString(year - 1) \o "-" \o ToString(year)

\* The hint the season-miss texts end with; y is new Date().getFullYear().
CurrentSeasonHint(y, tail) ==
    "\n\nThe current season is 2025-2026 (year=" \o ToString(y) \o "). " \o tail

\* The parsed upstream body: null, an object that is no array, or an array.
JsonNullBody == [type |-> "null"]
JsonObjectBody == [type |-> "object"]
JsonArray(items) == [type |-> "array", items |-> items]

\* !data || data.length === 0
IsEmptyData(data) ==
    \/ data.type = "null"
    \/ data.type = "array" /\ Len(data.items) = 0

----------------------------------------------------------------------------
(* get_basketball_score (lines 197-255) and get_basketball_schedule        *)
(* (lines 511-563): both read /games.                                      *)

\* new Date(startDate), as a day count.
DateValue(startDate) ==
    CASE startDate = "2024-02-01" -> 20240201
      [] startDate = "2025-01-10" -> 20250110
      [] startDate = "2025-02-15" -> 20250215
      [] startDate = "2025-03-01" -> 20250301

\* The season test, were the default year compared instead of the requested one.
InDefaultSeason(record, year) == Has(record, "season") /\ record.season = DefaultYear

\* record.season === year
InSeason(record, year) == Has(record, "season") /\ record.season = year

\* g.status === 'final' && g.homePoints != null && g.awayPoints != null
IsCompleted(g) ==
    /\ Has(g, "status") /\ g.status = "final"
    /\ Has(g, "homePoints") /\ g.homePoints # JsonNull
    /\ Has(g, "awayPoints") /\ g.awayPoints # JsonNull

\* game.homeTeam?.toLowerCase() === team
IsHome(game, team) == Has(game, "homeTeam") /\ toLowerCase(game.homeTeam) = team

\* isHome ? awayTeam : homeTeam, as a template prints it
Opponent(game, team) ==
    IF IsHome(game, team) THEN Show(game, "awayTeam") ELSE Show(game, "homeTeam")

TeamPoints(game, team) == IF IsHome(game, team) THEN "homePoints" ELSE "awayPoints"
OppPoints(game, team) == IF IsHome(game, team) THEN "awayPoints" ELSE "homePoints"

\* teamScore > oppScore ? 'W' : 'L' (a comparison with undefined is false, and
\* null compares as 0)
NumberOrZero(game, p) == IF game[p] = JsonNull THEN 0 ELSE game[p]
ResultLetter(game, team) ==
    IF /\ Has(game, TeamPoints(game, team))
       /\ Has(game, OppPoints(game, team))
       /\ NumberOrZero(game, TeamPoints(game, team))
            > NumberOrZero(game, OppPoints(game, team))
    THEN "W" ELSE "L"

\* teamScore-oppScore
ScoreLine(game, team) ==
    ShowNumber(game, TeamPoints(game, team)) \o "-"
        \o ShowNumber(game, OppPoints(game, team))

\* The game reported, were the completed games left unsorted.
FirstListed(games) == games[1]

\* completedGames.sort((a, b) => new Date(b.startDate) - new Date(a.startDate))[0]
MostRecent(games) ==
    sortDescending(games, [i \in 1..Len(games) |-> <<DateValue(games[i].startDate), 1>>])[1]

\* The text of the most recent game (lines 237-249).
ScoreText(game, team) ==
    "(bb) " \o toUpperCase(team) \o " BASKETBALL - Most Recent Game\n\n"
        \o ResultLetter(game, team) \o " vs " \o Opponent(game, team) \o "\n"
        \o "Final: " \o ScoreLine(game, team) \o "\n"
        \o (IF Has(game, "status") /\ game.status = "final"
            THEN "Status: Final\n" ELSE "")

\* The text of the empty guard, were it worded as the season filter's.
NoGamesFoundInSeason(team, year) ==
    "No basketball games found for " \o toUpperCase(team)
        \o " in the " \o SeasonSpan(year) \o " season"

\* `No basketball games found for ${team.toUpperCase()} in ${year}` (line 207)
NoGamesFound(team, year) ==
    "No basketball games found for " \o toUpperCase(team) \o " in " \o ToString(year)

FormatScore(data, team, year) ==
    IF IsEmptyData(data)
    THEN Text(NoGamesFound(team, year))
    ELSE IF data.type # "array"
    THEN Throws("data.filter is not a function")
    ELSE LET seasonGames == SelectSeq(data.items, LAMBDA g : InSeason(g, year))
             completedGames == SelectSeq(seasonGames, IsCompleted)
         IN  IF Len(seasonGames) = 0
             THEN Text("No basketball games found for " \o toUpperCase(team)
                           \o " in the " \o SeasonSpan(year) \o " season")
             ELSE IF Len(completedGames) = 0
             THEN Text("No completed games found for " \o toUpperCase(team)
                           \o " in the " \o SeasonSpan(year) \o " season yet.")
             ELSE Text(ScoreText(MostRecent(completedGames), team))

\* One line of the schedule (lines 539-557).
ScheduleLine(game, idx, team) ==
    ToString(idx) \o ". " \o (IF IsHome(game, team) THEN "vs" ELSE "@")
        \o " " \o Opponent(game, team)
        \o (IF Has(game, "status") /\ game.status = "final"
            THEN " - " \o ResultLetter(game, team) \o " " \o ScoreLine(game, team)
            ELSE "")
        \o "\n"

ScheduleHeading(team, year) ==
    "(bb) " \o toUpperCase(team) \o " BASKETBALL SCHEDULE - "
        \o SeasonSpan(year) \o " Season\n\n"

FormatSchedule(data, team, year, y) ==
    IF IsEmptyData(data)
    THEN Text("No schedule found for " \o toUpperCase(team)
                  \o " basketball in " \o ToString(year))
    ELSE IF data.type # "array"
    THEN Throws("data.filter is not a function")
    ELSE LET filteredGames == SelectSeq(data.items, LAMBDA g : InSeason(g, year))
         IN  IF Len(filteredGames) = 0
             THEN Text("No basketball games found for " \o toUpperCase(team)
                           \o " in the " \o SeasonSpan(year) \o " season."
                           \o CurrentSeasonHint(y, "Try asking for that year!"))
             ELSE Text(ScheduleHeading(team, year)
                           \o Lines([i \in 1..Len(filteredGames) |->
                                        ScheduleLine(filteredGames[i], i, team)],
                                    Len(filteredGames)))

----------------------------------------------------------------------------
(* Player-name extraction (lines 313-320 and 682-688):                     *)
(*   args.query.match(/\b([A-Z][a-z]+(?:\s+[A-Z][a-z']+)+)\b/)             *)

Char(s, i) == SubSeq(s, i, i)

UpperLetters == {"A", "B", "C", "D", "E", "F", "G", "H", "I", "J", "K", "L", "M",
                 "N", "O", "P", "Q", "R", "S", "T", "U", "V", "W", "X", "Y", "Z"}
LowerLetters == {"a", "b", "c", "d", "e", "f", "g", "h", "i", "j", "k", "l", "m",
                 "n", "o", "p", "q", "r", "s", "t", "u", "v", "w", "x", "y", "z"}
Digits == {"0", "1", "2", "3", "4", "5", "6", "7", "8", "9"}

IsUpper(c) == c \in UpperLetters                              \* [A-Z]
LowerOrApostrophe == LowerLetters \cup {"'"}                  \* [a-z']
Spaces == {" ", "\t", "\n"}                                   \* \s
IsWordChar(c) == c \in UpperLetters \cup LowerLetters \cup Digits \cup {"_"}

\* \b between the characters at e and e + 1.
WordBoundary(s, e) ==
    (e >= 1 /\ e <= Len(s) /\ IsWordChar(Char(s, e)))
        # (e + 1 >= 1 /\ e + 1 <= Len(s) /\ IsWordChar(Char(s, e + 1)))

\* The end of the longest run of characters of a class that starts at i
\* (i - 1 when the character at i is not of the class).
RunEnd(s, i, class) ==
    CHOOSE e \in (i - 1)..Len(s) :
        /\ \A k \in i..e : Char(s, k) \in class
        /\ e = Len(s) \/ Char(s, e + 1) \notin class

\* e if the run ending at e has at least one character (from <= e), else 0.
NonEmptyRun(from, e) == IF e >= from THEN e ELSE 0

\* [A-Z][a-z]+ at i: the end of the word, 0 when there is none.
FirstWordEnd(s, i) ==
    IF i <= Len(s) /\ IsUpper(Char(s, i))
    THEN NonEmptyRun(i + 1, RunEnd(s, i + 1, LowerLetters)) ELSE 0

\* [A-Z][a-z']+ at i: <<from, to>>, the span of the [a-z']+ run, or <<0, 0>>.
CapitalizedAt(s, i) ==
    IF i <= Len(s) /\ IsUpper(Char(s, i))
    THEN (IF RunEnd(s, i + 1, LowerOrApostrophe) >= i + 1
          THEN <<i + 1, RunEnd(s, i + 1, LowerOrApostrophe)>> ELSE <<0, 0>>)
    ELSE <<0, 0>>

\* \s+[A-Z][a-z']+ after e, taken greedily; ws is the end of the \s+ run.
GroupFrom(s, e, ws) == IF ws >= e + 1 THEN CapitalizedAt(s, ws + 1) ELSE <<0, 0>>
GroupAfter(s, e) == GroupFrom(s, e, RunEnd(s, e + 1, Spaces))

\* The groups the greedy (...)+ takes after e, in order; g is the first.
RECURSIVE GroupsAfter(_, _)
GroupsFrom(s, g) == IF g = <<0, 0>> THEN <<>> ELSE <<g>> \o GroupsAfter(s, g[2])
GroupsAfter(s, e) == GroupsFrom(s, GroupAfter(s, e))

\* The ends the match may have, the final \b holding: backtracking gives up
\* characters of the last group's run, then the last group itself.
EndsIn(s, groups) ==
    {e \in 1..Len(s) :
        /\ \E k \in 1..Len(groups) : groups[k][1] <= e /\ e <= groups[k][2]
        /\ WordBoundary(s, e)}

EndsAfter(s, wordEnd) == IF wordEnd = 0 THEN {} ELSE EndsIn(s, GroupsAfter(s, wordEnd))

\* The ends of the matches that start at i.
MatchEnds(s, i) ==
    IF WordBoundary(s, i - 1) THEN EndsAfter(s, FirstWordEnd(s, i)) ELSE {}

\* The greatest element of a set of numbers.
Greatest(S) == CHOOSE e \in S : \A f \in S : f <= e

\* The leftmost match, and from there the longest the backtracking reaches.
MatchFrom(s, starts) ==
    IF starts = {} THEN ""
    ELSE SubSeq(s, 0 - Greatest({0 - i : i \in starts}),
                Greatest(MatchEnds(s, 0 - Greatest({0 - i : i \in starts}))))

\* nameMatch[1].trim(), "" when the query has no match.
ExtractName(query) ==
    MatchFrom(query, {i \in 1..Len(query) : MatchEnds(query, i) # {}})

\* let playerName = null; if (args.query) { ... }
PlayerNameOf(args) ==
    IF Has(args, "query") /\ Truthy(args.query) THEN ExtractName(args.query) ELSE ""

----------------------------------------------------------------------------
(* get_basketball_player_stats (lines 286-379). *)

\* p.name?.toLowerCase().includes(playerName.toLowerCase()) ||
\* playerName.toLowerCase().includes(p.name?.toLowerCase())
\* (includes(undefined) looks for the text "undefined")
NameMatches(p, playerName) ==
    IF Has(p, "name")
    THEN \/ includes(toLowerCase(p.name), toLowerCase(playerName))
         \/ includes(toLowerCase(playerName), toLowerCase(p.name))
    ELSE includes(toLowerCase(playerName), "undefined")

\* obj.p is truthy, for a number
TruthyNumber(obj, p) == Has(obj, p) /\ obj[p] # JsonNull /\ obj[p] # 0

\* player.games || 1
GamesOrOne(record) == IF TruthyNumber(record, "games") THEN record.games ELSE 1

\* if (player.p) text += `<label>: ${(player.p / games).toFixed(1)}\n`
PerGameLine(record, p, label, games) ==
    IF TruthyNumber(record, p)
    THEN label \o ": " \o toFixed1(record[p], games) \o "\n" ELSE ""

\* if (player.rebounds) text += `... ${(player.rebounds.total / games).toFixed(1)}\n`
ReboundsLine(player, games) ==
    IF Has(player, "rebounds")
    THEN "Rebounds Per Game: "
             \o (IF Has(player.rebounds, "total")
                 THEN toFixed1(player.rebounds.total, games) ELSE "NaN")
             \o "\n"
    ELSE ""

\* if (player.p?.pct) text += `<label>: ${player.p.pct.toFixed(1)}%\n`
\* (pct is kept in thousandths)
PlayerPctLine(player, p, label) ==
    IF Has(player, p) /\ TruthyNumber(player[p], "pct")
    THEN label \o ": " \o toFixed1(player[p].pct, 1000) \o "%\n" ELSE ""

\* The detail of one player (lines 348-359).
PlayerDetail(player, year) ==
    "(bb) " \o (IF Has(player, "name") /\ Truthy(player.name)
                THEN toUpperCase(player.name) ELSE "PLAYER")
        \o " - " \o SeasonSpan(year) \o "\n\n"
        \o "Games: " \o ShowNumber(player, "games") \o "\n"
        \o PerGameLine(player, "points", "Points Per Game", GamesOrOne(player))
        \o ReboundsLine(player, GamesOrOne(player))
        \o PerGameLine(player, "assists", "Assists Per Game", GamesOrOne(player))
        \o PlayerPctLine(player, "fieldGoals", "FG%")
        \o PlayerPctLine(player, "threePointFieldGoals", "3PT%")
        \o PlayerPctLine(player, "freeThrows", "FT%")

\* filteredData.SelectSeq(p => p.games > 0)
\*             .sort((a, b) => (b.points / b.games) - (a.points / a.games))
\*             .slice(0, 5)
\* (every record of the model that has games has points)
TopScorers(players) ==
    LET played == SelectSeq(players, LAMBDA p : Has(p, "games") /\ p.games > 0)
    IN  slice(sortDescending(played,
                             [i \in 1..Len(played) |->
                                 <<played[i].points, played[i].games>>]),
              5)

\* `${i + 1}. ${p.name}: ${(p.points / p.games).toFixed(1)} PPG\n`
ScorerLine(p, idx) ==
    ToString(idx) \o ". " \o Show(p, "name") \o ": "
        \o toFixed1(p.points, p.games) \o " PPG\n"

\* The lines of the top scorers.
ScorerLines(top) == Lines([i \in 1..Len(top) |-> ScorerLine(top[i], i)], Len(top))

\* The team's leaders (lines 362-372).
Leaders(players, team, year) ==
    "(bb) " \o toUpperCase(team) \o " BASKETBALL LEADERS - "
        \o SeasonSpan(year) \o "\n\n" \o "TOP SCORERS:\n"
        \o ScorerLines(TopScorers(players))

NotListed(playerName, team, year) ==
    playerName \o " is not listed in " \o toUpperCase(team) \o "'s "
        \o SeasonSpan(year) \o " basketball roster.\n\nThis player may:\n"
        \o "* Play for a different team\n"
        \o "* Not have recorded stats this season\n"
        \o "* Have a different spelling of their name"

FormatPlayerStats(data, playerName, team, year, y) ==
    IF IsEmptyData(data)
    THEN Text("No player stats found for " \o toUpperCase(team)
                  \o " basketball in the " \o SeasonSpan(year) \o " season")
    ELSE IF data.type # "array"
    THEN Throws("data.filter is not a function")
    ELSE LET seasonData == SelectSeq(data.items, LAMBDA p : InSeason(p, year))
             filteredData ==
                 IF Truthy(playerName)
                 THEN SelectSeq(seasonData, LAMBDA p : NameMatches(p, playerName))
                 ELSE seasonData
         IN  IF Len(seasonData) = 0
             THEN Text("No player stats found for " \o toUpperCase(team)
                           \o " basketball in the " \o SeasonSpan(year) \o " season."
                           \o CurrentSeasonHint(y, "Try asking for that year!"))
             ELSE IF Truthy(playerName) /\ Len(filteredData) = 0
             THEN Text(NotListed(playerName, team, year))
             ELSE IF Truthy(playerName)
             THEN Text(PlayerDetail(filteredData[1], year))
             ELSE Text(Leaders(filteredData, team, year))

----------------------------------------------------------------------------
(* get_basketball_team_stats (lines 410-480). *)

\* if (stats.p) { if (stats.p.pct !== null) text += `<label>: ...%\n` }
\* (pct is kept in thousandths; an absent pct gives NaN)
TeamPctLine(stats, p, label) ==
    IF ~Has(stats, p) THEN ""
    ELSE IF ~Has(stats[p], "pct") THEN label \o ": NaN%\n"
    ELSE IF stats[p].pct = JsonNull THEN ""
    ELSE label \o ": " \o toFixed1(stats[p].pct * 100, 1000) \o "%\n"

\* The text of one season's team record (lines 439-474); teamData has
\* teamStats.
TeamStatsText(teamData, team, year) ==
    "(bb) " \o toUpperCase(team) \o " BASKETBALL TEAM STATS - "
        \o SeasonSpan(year) \o " Season\n\n"
        \o (IF TruthyNumber(teamData, "games")
            THEN "Games Played: " \o ToString(teamData.games) \o "\n" ELSE "")
        \o (IF Has(teamData, "wins") /\ Has(teamData, "losses")
            THEN "Record: " \o ShowNumber(teamData, "wins") \o "-"
                     \o ShowNumber(teamData, "losses") \o "\n\n"
            ELSE "")
        \o TeamPctLine(teamData.teamStats, "fieldGoals", "Field Goal %")
        \o TeamPctLine(teamData.teamStats, "threePointFieldGoals", "Three Point %")
        \o TeamPctLine(teamData.teamStats, "freeThrows", "Free Throw %")
        \o PerGameLine(teamData.teamStats, "assists", "Assists Per Game",
                       GamesOrOne(teamData))
        \o PerGameLine(teamData.teamStats, "rebounds", "Rebounds Per Game",
                       GamesOrOne(teamData))
        \o PerGameLine(teamData.teamStats, "steals", "Steals Per Game",
                       GamesOrOne(teamData))
        \o PerGameLine(teamData.teamStats, "blocks", "Blocks Per Game",
                       GamesOrOne(teamData))
        \o PerGameLine(teamData.teamStats, "turnovers", "Turnovers Per Game",
                       GamesOrOne(teamData))

FormatTeamStats(data, team, year, y) ==
    IF IsEmptyData(data)
    THEN Text("No team stats found for " \o toUpperCase(team)
                  \o " basketball in " \o ToString(year))
    ELSE IF data.type # "array"
    THEN Throws("data.filter is not a function")
    ELSE LET filteredData == SelectSeq(data.items, LAMBDA d : InSeason(d, year))
         IN  IF Len(filteredData) = 0
             THEN Text("No team stats found for " \o toUpperCase(team)
                           \o " basketball in the " \o SeasonSpan(year) \o " season."
                           \o CurrentSeasonHint(y, "Try that year!"))
             ELSE IF ~Has(filteredData[1], "teamStats")
             THEN Throws("Cannot read properties of undefined (reading 'fieldGoals')")
             ELSE Text(TeamStatsText(filteredData[1], team, year))

----------------------------------------------------------------------------
(* get_basketball_rankings (lines 594-635). *)

\* poll.ranks?.find(r => r.school?.toLowerCase() === team) finds an entry
RankedIn(poll, team) ==
    /\ Has(poll, "ranks")
    /\ \E k \in 1..Len(poll.ranks) :
          Has(poll.ranks[k], "school") /\ toLowerCase(poll.ranks[k].school) = team

\* the entry find returns: the first one
TeamRank(poll, team) ==
    poll.ranks[CHOOSE k \in 1..Len(poll.ranks) :
                  /\ Has(poll.ranks[k], "school")
                  /\ toLowerCase(poll.ranks[k].school) = team
                  /\ \A j \in 1..(k - 1) :
                        ~(Has(poll.ranks[j], "school")
                          /\ toLowerCase(poll.ranks[j].school) = team)]

\* `${poll.poll}: #${teamRank.rank}\n` for a poll that ranks the team
PollLine(poll, team) ==
    IF RankedIn(poll, team)
    THEN Show(poll, "poll") \o ": #" \o ShowNumber(TeamRank(poll, team), "rank") \o "\n"
    ELSE ""

\* latestRanking.polls, [] when absent
PollsOf(ranking) == IF Has(ranking, "polls") THEN ranking.polls ELSE <<>>

RankingsText(latestRanking, team, year) ==
    IF \E k \in 1..Len(PollsOf(latestRanking)) : RankedIn(PollsOf(latestRanking)[k], team)
    THEN "(bb) " \o toUpperCase(team) \o " BASKETBALL RANKINGS - "
             \o ToString(year) \o "\n\n"
             \o Lines([k \in 1..Len(PollsOf(latestRanking)) |->
                          PollLine(PollsOf(latestRanking)[k], team)],
                      Len(PollsOf(latestRanking)))
    ELSE "(bb) " \o toUpperCase(team) \o " - " \o ToString(year)
             \o " BASKETBALL SEASON\n\n"
             \o toUpperCase(team) \o " was not ranked in the most recent "
             \o ToString(year) \o " basketball polls."

FormatRankings(data, team, year) ==
    IF IsEmptyData(data)
    THEN Text(toUpperCase(team) \o " was not ranked at any point during the "
                  \o ToString(year) \o " basketball season.")
    ELSE IF data.type # "array"
    THEN Throws("Cannot read properties of undefined (reading 'polls')")
    ELSE Text(RankingsText(data.items[Len(data.items)], team, year))

----------------------------------------------------------------------------
(* get_basketball_shooting_stats (lines 666-729). *)

\* p.player?.toLowerCase().includes(playerName.toLowerCase())
ShooterMatches(p, playerName) ==
    Has(p, "player") /\ includes(toLowerCase(p.player), toLowerCase(playerName))

\* if (player.p !== undefined) text += `<label>: ${(player.p * 100).toFixed(1)}%\n`
\* (the fraction is kept in thousandths; null * 100 is 0)
ShootingPctLine(player, p, label) ==
    IF ~Has(player, p) THEN ""
    ELSE label \o ": "
             \o toFixed1((IF player[p] = JsonNull THEN 0 ELSE player[p]) * 100, 1000)
             \o "%\n"

ShooterDetail(player, year) ==
    "(bb) " \o (IF Has(player, "player") THEN toUpperCase(player.player) ELSE "undefined")
        \o " SHOOTING - " \o ToString(year) \o "\n\n"
        \o ShootingPctLine(player, "fg_pct", "FG%")
        \o ShootingPctLine(player, "two_pt_pct", "2PT%")
        \o ShootingPctLine(player, "three_pt_pct", "3PT%")
        \o ShootingPctLine(player, "ft_pct", "FT%")

\* data.SelectSeq(p => p.three_pt_pct).sort((a, b) => b.three_pt_pct - a.three_pt_pct)
\*     .slice(0, 5)
Top3PT(shooters) ==
    LET made == SelectSeq(shooters, LAMBDA p : TruthyNumber(p, "three_pt_pct"))
    IN  slice(sortDescending(made, [i \in 1..Len(made) |-> <<made[i].three_pt_pct, 1>>]),
              5)

\* `${i + 1}. ${p.player}: ${(p.three_pt_pct * 100).toFixed(1)}%\n`
ShooterLine(p, idx) ==
    ToString(idx) \o ". " \o Show(p, "player") \o ": "
        \o toFixed1(p.three_pt_pct * 100, 1000) \o "%\n"

ShooterLines(top) == Lines([i \in 1..Len(top) |-> ShooterLine(top[i], i)], Len(top))

TopShooters(shooters, team, year) ==
    "(bb) " \o toUpperCase(team) \o " SHOOTING STATS - " \o ToString(year) \o "\n\n"
        \o "TOP 3-POINT SHOOTERS:\n"
        \o ShooterLines(Top3PT(shooters))

\* The player data.find returns, or the text for none.
FoundShooter(found, playerName, team, year) ==
    IF Len(found) = 0
    THEN Text("No shooting stats found for " \o playerName
                  \o " on " \o toUpperCase(team) \o " in " \o ToString(year))
    ELSE Text(ShooterDetail(found[1], year))

FormatShootingStats(data, playerName, team, year) ==
    IF IsEmptyData(data)
    THEN Text("No shooting stats found for " \o toUpperCase(team)
                  \o " basketball in " \o ToString(year))
    ELSE IF data.type # "array"
    THEN Throws(IF Truthy(playerName) THEN "data.find is not a function"
                ELSE "data.filter is not a function")
    ELSE IF Truthy(playerName)
    THEN FoundShooter(SelectSeq(data.items, LAMBDA p : ShooterMatches(p, playerName)),
                      playerName, team, year)
    ELSE Text(TopShooters(data.items, team, year))

----------------------------------------------------------------------------
(* get_basketball_roster (lines 760-801). *)

\* !data || data.length === 0 || !data[0] || !data[0].players ||
\* data[0].players.length === 0
IsEmptyRoster(data) ==
    \/ IsEmptyData(data)
    \/ data.type # "array"
    \/ ~Has(data.items[1], "players")
    \/ Len(data.items[1].players) = 0

\* if (player.p) text += ...
TruthyText(obj, p) == Has(obj, p) /\ Truthy(obj[p])

RosterLine(player, idx) ==
    ToString(idx) \o ". " \o Show(player, "name")
        \o (IF TruthyText(player, "position") THEN " - " \o player.position ELSE "")
        \o (IF TruthyText(player, "jersey") THEN " (#" \o player.jersey \o ")" ELSE "")
        \o (IF TruthyText(player, "height") THEN " - " \o player.height ELSE "")
        \o "\n"

RosterText(rosterData, team, year) ==
    "(bb) " \o toUpperCase(team) \o " BASKETBALL ROSTER - " \o SeasonSpan(year) \o "\n\n"
        \o Lines([i \in 1..Len(rosterData.players) |-> RosterLine(rosterData.players[i], i)],
                 Len(rosterData.players))

FormatRoster(data, team, year, y) ==
    IF IsEmptyRoster(data)
    THEN Text("No roster found for " \o toUpperCase(team) \o " basketball in the "
                  \o SeasonSpan(year) \o " season")
    ELSE IF ~InSeason(data.items[1], year)
    THEN Text("No roster found for " \o toUpperCase(team) \o " basketball in the "
                  \o SeasonSpan(year) \o " season."
                  \o CurrentSeasonHint(y, "Try that year!"))
    ELSE Text(RosterText(data.items[1], team, year))

----------------------------------------------------------------------------
(* What the upstream API may answer. *)

\* Records of /games.
Games ==
    {[season |-> 2025, status |-> "final", startDate |-> "2025-01-10",
      homeTeam |-> "Oklahoma", awayTeam |-> "Kansas",
      homePoints |-> 80, awayPoints |-> 75],
     [season |-> 2025, status |-> "final", startDate |-> "2025-02-15",
      homeTeam |-> "Kansas", awayTeam |-> "Oklahoma",
      homePoints |-> 65, awayPoints |-> 90],
     [season |-> 2025, status |-> "scheduled", startDate |-> "2025-03-01",
      homeTeam |-> "Oklahoma", awayTeam |-> "Kansas",
      homePoints |-> JsonNull, awayPoints |-> JsonNull],
     [season |-> 2024, status |-> "final", startDate |-> "2024-02-01",
      homeTeam |-> "Kansas", awayTeam |-> "Oklahoma",
      homePoints |-> 70, awayPoints |-> 60]}

\* Records of /stats/player/season (pct in thousandths).
PlayerSeasons ==
    {[season |-> 2025, name |-> "Jalon Moore", games |-> 20, points |-> 300,
      rebounds |-> [total |-> 120], assists |-> 40,
      fieldGoals |-> [pct |-> 45600]],
     [season |-> 2025, name |-> "Sam Godwin", games |-> 10, points |-> 55],
     [season |-> 2025, name |-> "Moore", games |-> 10, points |-> 200],
     [season |-> 2024, name |-> "Jalon Moore", games |-> 30, points |-> 330]}

\* Records of /stats/team/season (pct in thousandths); the last one has no
\* teamStats.
TeamSeasons ==
    {[season |-> 2025, games |-> 30, wins |-> 20, losses |-> 10,
      teamStats |-> [fieldGoals |-> [pct |-> 456], assists |-> 450,
                     rebounds |-> 1100]],
     [season |-> 2024, games |-> 32, wins |-> 15, losses |-> 17,
      teamStats |-> [fieldGoals |-> [pct |-> 431], steals |-> 200]],
     [season |-> 2025, games |-> 30]}

\* Records of /rankings.
Rankings ==
    {[polls |-> <<[poll |-> "AP Top 25",
                   ranks |-> <<[school |-> "Kansas", rank |-> 3],
                               [school |-> "Oklahoma", rank |-> 12]>>]>>],
     [polls |-> <<[poll |-> "Coaches Poll",
                   ranks |-> <<[school |-> "Kansas", rank |-> 5]>>]>>]}

\* Records of /stats/player/shooting/season (fractions in thousandths).
Shooters ==
    {[player |-> "Jalon Moore", fg_pct |-> 480, three_pt_pct |-> 390],
     [player |-> "Moore", three_pt_pct |-> 300],
     [player |-> "Sam Godwin", fg_pct |-> 550, three_pt_pct |-> 410,
      ft_pct |-> 700]}

\* Records of /teams/roster.
Rosters ==
    {[season |-> 2025,
      players |-> <<[name |-> "Jalon Moore", position |-> "F", jersey |-> "14",
                     height |-> "6-7"],
                    [name |-> "Sam Godwin"]>>],
     [season |-> 2024, players |-> <<[name |-> "Jalon Moore", position |-> "F"]>>]}

RecordsOf(name) ==
    CASE name \in {"get_basketball_score", "get_basketball_schedule"} -> Games
      [] name = "get_basketball_player_stats" -> PlayerSeasons
      [] name = "get_basketball_team_stats" -> TeamSeasons
      [] name = "get_basketball_rankings" -> Rankings
      [] name = "get_basketball_shooting_stats" -> Shooters
      [] name = "get_basketball_roster" -> Rosters

\* The sequences over S of length at most n.
SeqsUpTo(S, n) == UNION {[1..k -> S] : k \in 0..n}

\* The bodies a 2xx response may carry: JSON null, an object, an array of
\* the endpoint's records, or text that is not JSON.
BodiesOf(name) ==
    {JsonNullBody, JsonObjectBody, [type |-> "invalid"]}
        \cup {JsonArray(items) : items \in SeqsUpTo(RecordsOf(name), MaxRecords)}

\* The HTTP responses of the upstream.
HttpResponses(name) ==
    {[kind |-> "response", status |-> 404], [kind |-> "response", status |-> 500]}
        \cup {[kind |-> "response", status |-> 200, body |-> b] : b \in BodiesOf(name)}

\* The fetch promise rejects.
NetworkFailure == [kind |-> "reject", message |-> "fetch failed"]
TimedOut == [kind |-> "reject", message |-> "The operation was aborted due to timeout"]

NoSnapshot == [kind |-> "none"]

\* The years the clock may show.
ClockYears == DefaultYear..(DefaultYear + MaxYearChanges)

----------------------------------------------------------------------------
(* The tool handler after its fetch has settled (lines 183-264 and alike). *)

\* response.ok
IsOk(response) == response.status >= 200 /\ response.status <= 299

\* The formatter of a tool on the parsed body.
Format(name, data, args, y) ==
    CASE name = "get_basketball_score" ->
            FormatScore(data, TeamOf(args), YearOf(args))
      [] name = "get_basketball_player_stats" ->
            FormatPlayerStats(data, PlayerNameOf(args), TeamOf(args), YearOf(args), y)
      [] name = "get_basketball_team_stats" ->
            FormatTeamStats(data, TeamOf(args), YearOf(args), y)
      [] name = "get_basketball_schedule" ->
            FormatSchedule(data, TeamOf(args), YearOf(args), y)
      [] name = "get_basketball_rankings" ->
            FormatRankings(data, TeamOf(args), YearOf(args))
      [] name = "get_basketball_shooting_stats" ->
            FormatShootingStats(data, PlayerNameOf(args), TeamOf(args), YearOf(args))
      [] name = "get_basketball_roster" ->
            FormatRoster(data, TeamOf(args), YearOf(args), y)

\* The try block of a tool, the fetch having settled as `settled`.
TryTool(name, args, settled, y) ==
    IF settled.kind = "reject" THEN Throws(settled.message)
    ELSE IF ~IsOk(settled)
    THEN Text("CFBD API error: " \o ToString(settled.status))
    ELSE IF settled.body.type = "invalid"
    THEN Throws("Unexpected token < in JSON at position 0")
    ELSE Format(name, settled.body, args, y)

\* The tool's catch, were the thrown message sent as it is.
CaughtBare(tried) == IF tried.ok THEN tried.text ELSE tried.message

\* The tool's catch: what is thrown in the try block becomes a text.
Caught(tried) == IF tried.ok THEN tried.text ELSE "Error: " \o tried.message
ToolText(name, args, settled, y) == Caught(TryTool(name, args, settled, y))

\* The response of the tools/call r whose fetch settled as `settled`, the
\* clock showing year y.
Complete(r, settled, y) ==
    TextResult(r, ToolText(r.body.params.name, r.body.params.arguments, settled, y))

----------------------------------------------------------------------------
(* The state machine. *)

NoFetch == [kind |-> "none"]
NoReplay == [kind |-> "none"]

Init ==
    /\ MCP_API_KEY \in {"", Secret}
    /\ CFBD_BASKETBALL_KEY \in {"", "cfbd-key"}
    /\ pc = "idle"
    /\ req = NoRequest
    /\ pending = NoFetch
    /\ upstream = <<>>
    /\ snapshot = NoSnapshot
    /\ sent = <<>>
    /\ replayed = NoReplay

\* What res.json wrote.
Written(s) == [status |-> s.status, body |-> s.body]

\* Request r is handled up to `step`, its response or its fetch.
Begin(r, step) ==
    /\ pc = "idle"
    /\ req' = r
    /\ IF step.kind = "send"
       THEN /\ pc' = "responded"
            /\ sent' = Append(sent, Written(step))
            /\ UNCHANGED <<pending, upstream>>
       ELSE /\ pc' = "awaiting"
            /\ pending' = step
            /\ upstream' = Append(upstream, step)
            /\ UNCHANGED sent
    /\ UNCHANGED <<MCP_API_KEY, CFBD_BASKETBALL_KEY, snapshot, replayed>>

\* A request arrives and the handler runs to its response or to its fetch.
HandleRequest(r) == Begin(r, Dispatch(r))

\* The fetch settles as `settled` and the handler runs to its response.
Settle(settled, y) ==
    /\ pc = "awaiting"
    /\ snapshot' = settled
    /\ sent' = Append(sent, Written(Complete(req, settled, y)))
    /\ pc' = "responded"
    /\ pending' = NoFetch
    /\ UNCHANGED <<MCP_API_KEY, CFBD_BASKETBALL_KEY, req, upstream, replayed>>

\* The upstream answers with an HTTP response.
UpstreamResponds ==
    /\ pc = "awaiting"
    /\ \E settled \in HttpResponses(pending.tool), y \in ClockYears : Settle(settled, y)

\* The connection fails.
UpstreamFails ==
    /\ pc = "awaiting"
    /\ \E y \in ClockYears : Settle(NetworkFailure, y)

\* AbortSignal.timeout(10000) fires before the upstream has answered.
FetchTimeout ==
    /\ pc = "awaiting"
    /\ pending.timeout = FetchTimeoutMs
    /\ \E y \in ClockYears : Settle(TimedOut, y)

\* The client sends the same tools/call again and the upstream serves what
\* it served before; the clock shows year y.
Replay ==
    /\ pc = "responded"
    /\ snapshot # NoSnapshot
    /\ replayed = NoReplay
    /\ Dispatch(req).kind = "fetch"
    /\ \E y \in ClockYears :
          replayed' = [kind |-> "text",
                       text |-> ToolText(req.body.params.name,
                                         req.body.params.arguments, snapshot, y)]
    /\ UNCHANGED <<MCP_API_KEY, CFBD_BASKETBALL_KEY, pc, req, pending, upstream,
                   snapshot, sent>>

\* The exchange is over; the next request finds nothing of it.
Finish ==
    /\ pc = "responded"
    /\ pc' = "idle"
    /\ req' = NoRequest
    /\ pending' = NoFetch
    /\ upstream' = <<>>
    /\ snapshot' = NoSnapshot
    /\ sent' = <<>>
    /\ replayed' = NoReplay
    /\ UNCHANGED <<MCP_API_KEY, CFBD_BASKETBALL_KEY>>

Next ==
    \/ \E r \in Requests : HandleRequest(r)
    \/ UpstreamResponds
    \/ UpstreamFails
    \/ FetchTimeout
    \/ Replay
    \/ Finish

Spec == Init /\ [][Next]_vars

\* The requests of a client that holds the secret and sends no id.
LiveRequests ==
    {r \in Requests :
        /\ r.method = "POST"
        /\ r.headers = [authorization |-> "Bearer " \o Secret]
        /\ Has(r, "body") => ~Has(r.body, "id")}

FairNext ==
    \/ \E r \in LiveRequests : HandleRequest(r)
    \/ UpstreamResponds
    \/ UpstreamFails
    \/ FetchTimeout
    \/ Finish

\* The runtime fires an armed timer: a fetch that is still pending when its
\* AbortSignal.timeout elapses is rejected.
FairSpec == Init /\ [][FairNext]_vars /\ WF_vars(FetchTimeout)

----------------------------------------------------------------------------
(* Vocabulary of the properties. *)

\* The response to the request in hand (there is one once pc = "responded").
Answer == sent[1]

\* The Authorization header is absent or differs from 'Bearer <secret>'.
BadAuthorization(r) ==
    \/ ~Has(r.headers, "authorization")
    \/ r.headers.authorization # "Bearer " \o MCP_API_KEY

\* The request passes the auth check: no secret is configured, or the header
\* carries it.
Authorized(r) == ~Truthy(MCP_API_KEY) \/ ~BadAuthorization(r)

\* A JSON-RPC error envelope with this code.
IsRpcError(response, code) ==
    /\ Has(response.body, "error")
    /\ ~Has(response.body, "result")
    /\ response.body.error.code = code

\* A JSON-RPC result envelope whose content is this text.
IsTextResult(response, text) ==
    /\ Has(response.body, "result")
    /\ ~Has(response.body, "error")
    /\ Has(response.body.result, "content")
    /\ response.body.result.content = <<[type |-> "text", text |-> text]>>

\* A non-GET request with a body whose method is tools/call.
IsToolsCall(r) ==
    /\ r.method # "GET"
    /\ Has(r, "body")
    /\ Has(r.body, "method")
    /\ r.body.method = "tools/call"

\* The upstream key is configured.
KeyConfigured == Truthy(CFBD_BASKETBALL_KEY)

----------------------------------------------------------------------------
(* C1 *)

\* C1, as stated: with an MCP auth secret configured, every request to /mcp
\* whose Authorization header is absent or differs from 'Bearer <secret>' is
\* answered with JSON-RPC error -32001 and HTTP 401, whatever its HTTP method,
\* JSON-RPC method and params.
C1_UnauthorizedWhateverMethod ==
    (pc = "responded" /\ Truthy(MCP_API_KEY) /\ BadAuthorization(req))
        => (Answer.status = HttpUnauthorized /\ IsRpcError(Answer, Unauthorized))

\* C1, amended: the same for every request that is not a GET; a GET is
\* answered with the readiness probe before the auth check.
C1_UnauthorizedUnlessGet ==
    (pc = "responded" /\ Truthy(MCP_API_KEY) /\ BadAuthorization(req))
        => IF req.method = "GET"
           THEN Answer.status = HttpOk /\ Answer.body = ReadyProbe
           ELSE /\ Answer.status = HttpUnauthorized
                /\ IsRpcError(Answer, Unauthorized)
                /\ Answer.body.error.message = "Unauthorized"

\* A tools/call with a wrong bearer token has been refused.
C1_Witness ==
    /\ pc = "responded"
    /\ Truthy(MCP_API_KEY)
    /\ IsToolsCall(req)
    /\ Has(req.headers, "authorization")
    /\ req.headers.authorization # "Bearer " \o MCP_API_KEY
    /\ Answer.status = HttpUnauthorized

----------------------------------------------------------------------------
(* C2 *)

\* C2: every authorized tools/call handled while the upstream key is unset
\* - whatever its params, absent params included - is answered with a result
\* whose text is the fixed 'API key not configured' message, never with an
\* error envelope.
C2_KeyUnsetAlwaysResult ==
    (pc = "responded" /\ IsToolsCall(req) /\ Authorized(req) /\ ~KeyConfigured)
        => IsTextResult(Answer, "Error: CFBD Basketball API key not configured")

----------------------------------------------------------------------------
(* C3 *)

\* params.name is none of the seven registered tool names.
NamesNoTool(r) ==
    /\ Has(r.body, "params")
    /\ ~Has(r.body.params, "name") \/ r.body.params.name \notin ToolNames

\* C3: every authorized tools/call whose params.name is none of the seven
\* registered tool names is answered with JSON-RPC error -32601 and the
\* message 'Unknown tool: <name>', whatever the arguments (absent arguments
\* included).  Stated here for a configured upstream key, one of the
\* configurations the property ranges over.
C3_UnknownToolWhateverArguments ==
    (pc = "responded" /\ IsToolsCall(req) /\ Authorized(req) /\ KeyConfigured
        /\ NamesNoTool(req))
        => /\ IsRpcError(Answer, MethodNotFound)
           /\ Answer.body.error.message = "Unknown tool: " \o Show(req.body.params, "name")

----------------------------------------------------------------------------
(* C4 *)

\* C4: every response to a request that is not a GET is a JSON-RPC envelope
\* with exactly one of result and error, and with the id of the request
\* (no id when the request has none).
C4_Envelope ==
    (pc = "responded" /\ req.method # "GET")
        => /\ Len(sent) = 1
           /\ Has(Answer.body, "jsonrpc") /\ Answer.body.jsonrpc = "2.0"
           /\ Has(Answer.body, "result") # Has(Answer.body, "error")
           /\ DOMAIN Answer.body \subseteq {"jsonrpc", "result", "error", "id"}
           /\ IF Has(req, "body") /\ Has(req.body, "id")
              THEN Has(Answer.body, "id") /\ Answer.body.id = req.body.id
              ELSE ~Has(Answer.body, "id")

\* An internal failure has been answered for a request without id.
C4_Witness ==
    /\ pc = "responded"
    /\ IsToolsCall(req)
    /\ ~Has(req.body, "id")
    /\ IsRpcError(Answer, InternalError)

----------------------------------------------------------------------------
(* C5 *)

\* The tools/call in hand reached a tool and its fetch has settled.
ToolAnswered == pc = "responded" /\ snapshot # NoSnapshot

\* C5: for each tool, an upstream failure is reported as a result, never as
\* an error: a non-2xx status gives the text 'CFBD API error: <status>', a
\* timeout or network failure the text 'Error: <message>'; the HTTP status
\* is 200.
C5_UpstreamFailureIsResult ==
    /\ (ToolAnswered /\ snapshot.kind = "response" /\ ~(snapshot.status \in 200..299))
          => /\ Answer.status = HttpOk
             /\ IsTextResult(Answer, "CFBD API error: " \o ToString(snapshot.status))
    /\ (ToolAnswered /\ snapshot.kind = "reject")
          => /\ Answer.status = HttpOk
             /\ IsTextResult(Answer, "Error: " \o snapshot.message)

\* The upstream answered 500 to the fetch of the rankings tool.
C5_Witness ==
    /\ ToolAnswered
    /\ req.body.params.name = "get_basketball_rankings"
    /\ snapshot.kind = "response"
    /\ snapshot.status = 500
    /\ IsTextResult(Answer, "CFBD API error: 500")

----------------------------------------------------------------------------
(* C6 *)

\* The handler throws before any fetch: the body, the params or the
\* arguments it reads are undefined.
ThrowsBeforeFetch(r) ==
    /\ r.method # "GET"
    /\ Authorized(r)
    /\ \/ ~Has(r, "body")
       \/ IsToolsCall(r) /\ ~Has(r.body, "params")
       \/ IsToolsCall(r) /\ KeyConfigured /\ Has(r.body, "params")
             /\ ~Has(r.body.params, "arguments")

\* The transformation of a parsed upstream payload throws.
ThrowsInTransform ==
    /\ ToolAnswered
    /\ snapshot.kind = "response"
    /\ snapshot.status \in 200..299
    /\ snapshot.body.type # "invalid"
    /\ ~TryTool(req.body.params.name, req.body.params.arguments, snapshot,
                DefaultYear).ok

\* C6: every internal exception - raised while the body and params are read,
\* or while a tool transforms an upstream payload of unexpected shape - is
\* answered with JSON-RPC error -32603 and HTTP 500, never with a result.
C6_InternalFailureIsError ==
    (pc = "responded" /\ (ThrowsBeforeFetch(req) \/ ThrowsInTransform))
        => (Answer.status = HttpInternalError /\ IsRpcError(Answer, InternalError))

----------------------------------------------------------------------------
(* C7 *)

\* C7: for every authorized tools/call that names one of the seven tools,
\* the upstream key being configured, exactly one upstream GET has been
\* issued when the response is written.
C7_ExactlyOneUpstreamCall ==
    (pc = "responded" /\ IsToolsCall(req) /\ Authorized(req) /\ KeyConfigured
        /\ Has(req.body, "params") /\ Has(req.body.params, "name")
        /\ req.body.params.name \in ToolNames)
        => Len(upstream) = 1

----------------------------------------------------------------------------
(* C8 *)

\* The text a tool's catch gives when AbortSignal.timeout rejects the fetch.
TimeoutText == "Error: The operation was aborted due to timeout"

\* C8: a request gets exactly one response and does not hang: a handler
\* suspended on its fetch is eventually answered, and when the timeout is
\* what ends the fetch the answer is a result that says so.
C8_AlwaysAnswered ==
    /\ [](Len(sent) <= 1)
    /\ [](pc = "responded" => Len(sent) = 1)
    /\ [](pc = "awaiting" => Len(sent) = 0)
    /\ (pc = "awaiting") ~> (pc = "responded")
    /\ []((pc = "responded" /\ snapshot = TimedOut)
            => (Answer.status = HttpOk /\ IsTextResult(Answer, TimeoutText)))

\* The timeout has ended the fetch of a tool and the request is answered.
C8_Witness ==
    /\ pc = "responded"
    /\ snapshot = TimedOut
    /\ Len(sent) = 1
    /\ IsTextResult(Answer, TimeoutText)

----------------------------------------------------------------------------
(* C9 *)

\* C9: a repeat of a tools/call, answered against the same upstream
\* snapshot, gets the text the first one got.
C9_SameRequestSameText ==
    (pc = "responded" /\ replayed # NoReplay)
        => IsTextResult(Answer, replayed.text)

----------------------------------------------------------------------------
(* C10 *)

\* The tools that filter the upstream array by season.
SeasonTools == {"get_basketball_score", "get_basketball_schedule",
                "get_basketball_player_stats", "get_basketball_team_stats"}

\* The texts a tool answers with when no record is of the requested season.
SeasonMissTexts(name, TEAM, year) ==
    CASE name = "get_basketball_score" ->
            {"No basketball games found for " \o TEAM \o " in the "
                \o ToString(year - 1) \o "-" \o ToString(year) \o " season"}
      [] name = "get_basketball_schedule" ->
            {"No basketball games found for " \o TEAM \o " in the "
                \o ToString(year - 1) \o "-" \o ToString(year) \o " season."
                \o "\n\nThe current season is 2025-2026 (year=" \o ToString(y)
                \o "). Try asking for that year!" : y \in ClockYears}
      [] name = "get_basketball_player_stats" ->
            {"No player stats found for " \o TEAM \o " basketball in the "
                \o ToString(year - 1) \o "-" \o ToString(year) \o " season."
                \o "\n\nThe current season is 2025-2026 (year=" \o ToString(y)
                \o "). Try asking for that year!" : y \in ClockYears}
      [] name = "get_basketball_team_stats" ->
            {"No team stats found for " \o TEAM \o " basketball in the "
                \o ToString(year - 1) \o "-" \o ToString(year) \o " season."
                \o "\n\nThe current season is 2025-2026 (year=" \o ToString(y)
                \o "). Try that year!" : y \in ClockYears}

\* The upper-cased team and the year of a call whose arguments are args.
RequestedTEAM(args) ==
    IF Has(args, "team") /\ toLowerCase(args.team) = "kansas" THEN "KANSAS" ELSE "OKLAHOMA"
RequestedYear(args) == IF Has(args, "year") THEN args.year ELSE DefaultYear

\* The text is what the records wanted give: the season's no-data text when
\* there are none, else the text the tool gives on those records alone.
BuiltFrom(response, name, args, wanted) ==
    IF wanted = <<>>
    THEN \E t \in SeasonMissTexts(name, RequestedTEAM(args), RequestedYear(args)) :
            IsTextResult(response, t)
    ELSE IsTextResult(response,
                      ToolText(name, args,
                               [kind |-> "response", status |-> 200,
                                body |-> JsonArray(wanted)], DefaultYear))

\* The records of an array that are of the season a call asks for.
OfSeason(items, args) ==
    SelectSeq(items, LAMBDA x : Has(x, "season") /\ x.season = RequestedYear(args))

\* C10: for score, schedule, player_stats and team_stats, on an upstream
\* array that is not empty, the records of other seasons have no part in the
\* text: it is the text the records of the requested season alone give, and
\* the tool's season-specific no-data text when there are none.
C10_SeasonFilter ==
    (ToolAnswered /\ req.body.params.name \in SeasonTools
        /\ snapshot.kind = "response" /\ snapshot.status = 200
        /\ snapshot.body.type = "array" /\ Len(snapshot.body.items) > 0)
        => BuiltFrom(Answer, req.body.params.name, req.body.params.arguments,
                     OfSeason(snapshot.body.items, req.body.params.arguments))

\* The schedule of 2024 has been given from an array that mixes 2024 and 2025.
C10_Witness ==
    /\ ToolAnswered
    /\ req.body.params.name = "get_basketball_schedule"
    /\ Has(req.body.params.arguments, "year")
    /\ req.body.params.arguments.year = 2024
    /\ snapshot.kind = "response" /\ snapshot.status = 200
    /\ snapshot.body.type = "array" /\ Len(snapshot.body.items) = 2
    /\ snapshot.body.items[1].season = 2025
    /\ snapshot.body.items[2].season = 2024
    /\ IsTextResult(Answer, "(bb) OKLAHOMA BASKETBALL SCHEDULE - 2023-2024 Season\n\n"
                                \o "1. @ Kansas - L 60-70\n")

----------------------------------------------------------------------------
(* C11 *)

\* An authorized request, not a GET, whose method is tools/list.
IsToolsList(r) ==
    /\ r.method # "GET"
    /\ Authorized(r)
    /\ Has(r, "body")
    /\ Has(r.body, "method")
    /\ r.body.method = "tools/list"

\* C11: every authorized tools/list is answered with a result whose catalog
\* holds exactly 7 tool definitions of pairwise distinct names - the seven
\* registered names - each with 'team' required in its input schema; the
\* catalog is the same fixed value whatever the params, the id, the
\* upstream-key configuration and the requests handled before.
C11_FixedCatalog ==
    (pc = "responded" /\ IsToolsList(req))
        => /\ Answer.status = HttpOk
           /\ Has(Answer.body, "result") /\ ~Has(Answer.body, "error")
           /\ DOMAIN Answer.body.result = {"tools"}
           /\ LET tools == Answer.body.result.tools
              IN  /\ Len(tools) = 7
                  /\ \A i, j \in 1..Len(tools) :
                        tools[i].name = tools[j].name => i = j
                  /\ {tools[i].name : i \in 1..Len(tools)} = ToolNames
                  /\ \A i \in 1..Len(tools) :
                        /\ \E k \in 1..Len(tools[i].inputSchema.required) :
                              tools[i].inputSchema.required[k] = "team"
                        /\ "team" \in tools[i].inputSchema.properties
                  /\ tools = ToolCatalog

\* The catalog has been given to a tools/list that carries params, while the
\* upstream key is unset.
C11_Witness ==
    /\ pc = "responded"
    /\ IsToolsList(req)
    /\ Has(req.body, "params")
    /\ ~KeyConfigured
    /\ Len(Answer.body.result.tools) = 7

----------------------------------------------------------------------------
(* C12 *)

\* The score tool has been answered from a 200 response carrying an array.
ScoreAnswered ==
    /\ ToolAnswered
    /\ req.body.params.name = "get_basketball_score"
    /\ snapshot.kind = "response" /\ snapshot.status = 200
    /\ snapshot.body.type = "array"

\* The records of the requested season that are final with both scores.
CompletedOfSeason(items, args) ==
    SelectSeq(items, LAMBDA g : /\ g.season = YearOf(args)
                                /\ g.status = "final"
                                /\ g.homePoints # JsonNull
                                /\ g.awayPoints # JsonNull)

\* The text that reports game g for the team: the team's score is the home
\* points exactly when the team is the home team, and the letter is W
\* exactly when the team's score is the greater one.
ReportOf(g, team) ==
    LET atHome == toLowerCase(g.homeTeam) = team
        teamScore == IF atHome THEN g.homePoints ELSE g.awayPoints
        oppScore == IF atHome THEN g.awayPoints ELSE g.homePoints
        opponent == IF atHome THEN g.awayTeam ELSE g.homeTeam
    IN  "(bb) " \o toUpperCase(team) \o " BASKETBALL - Most Recent Game\n\n"
            \o (IF teamScore > oppScore THEN "W" ELSE "L") \o " vs " \o opponent
            \o "\nFinal: " \o ToString(teamScore) \o "-" \o ToString(oppScore)
            \o "\nStatus: Final\n"

\* C12: get_basketball_score reports a completed game of the requested
\* season whose start date is maximal among them, with the team's score
\* taken from the home side exactly when the team is at home and the letter
\* W exactly when the team's score is the greater one; home Oklahoma 80,
\* away Kansas 75 gives 'W vs Kansas' and 'Final: 80-75'.
C12_LatestCompletedGame ==
    ScoreAnswered =>
        LET args == req.body.params.arguments
            completed == CompletedOfSeason(snapshot.body.items, args)
        IN  /\ Len(completed) > 0 =>
                \E i \in 1..Len(completed) :
                    /\ \A j \in 1..Len(completed) :
                          DateValue(completed[j].startDate)
                              <= DateValue(completed[i].startDate)
                    /\ IsTextResult(Answer, ReportOf(completed[i], TeamOf(args)))
            /\ (/\ Len(completed) = 1
                /\ TeamOf(args) = "oklahoma"
                /\ completed[1].homeTeam = "Oklahoma" /\ completed[1].homePoints = 80
                /\ completed[1].awayTeam = "Kansas" /\ completed[1].awayPoints = 75)
                  => IsTextResult(Answer,
                        "(bb) OKLAHOMA BASKETBALL - Most Recent Game\n\n"
                            \o "W vs Kansas\nFinal: 80-75\nStatus: Final\n")

\* The later of two completed games, listed second, has been reported: the
\* away win of Oklahoma at Kansas.
C12_Witness ==
    /\ ScoreAnswered
    /\ TeamOf(req.body.params.arguments) = "oklahoma"
    /\ Len(CompletedOfSeason(snapshot.body.items, req.body.params.arguments)) = 2
    /\ snapshot.body.items[1].startDate = "2025-01-10"
    /\ snapshot.body.items[2].startDate = "2025-02-15"
    /\ IsTextResult(Answer, "(bb) OKLAHOMA BASKETBALL - Most Recent Game\n\n"
                                \o "W vs Kansas\nFinal: 90-65\nStatus: Final\n")

----------------------------------------------------------------------------
(* C13 *)

\* The player_stats tool has been answered from a 200 response carrying an
\* array with records of the requested season.
PlayerStatsAnswered ==
    /\ ToolAnswered
    /\ req.body.params.name = "get_basketball_player_stats"
    /\ snapshot.kind = "response" /\ snapshot.status = 200
    /\ snapshot.body.type = "array"
    /\ Len(OfSeason(snapshot.body.items, req.body.params.arguments)) > 0

\* The records of the requested season that match the extracted name.
MatchingPlayers(items, args) ==
    SelectSeq(OfSeason(items, args),
              LAMBDA p : NameMatches(p, PlayerNameOf(args)))

\* C13: with a name extracted from the query, exactly one matching record of
\* the season gives the detail view (300 points over 20 games: 15.0 per
\* game) and more than one gives the top-5 listing of the matching records
\* by points per game, descending; with no name extracted the listing is of
\* the whole team.
C13_ShapeByMatches ==
    PlayerStatsAnswered =>
        LET args == req.body.params.arguments
            season == OfSeason(snapshot.body.items, args)
            matching == MatchingPlayers(snapshot.body.items, args)
        IN  /\ (Truthy(PlayerNameOf(args)) /\ Len(matching) = 1)
                  => /\ IsTextResult(Answer, PlayerDetail(matching[1], YearOf(args)))
                     /\ (matching[1].points = 300 /\ matching[1].games = 20)
                           => includes(Answer.body.result.content[1].text,
                                       "Points Per Game: 15.0\n")
            /\ (Truthy(PlayerNameOf(args)) /\ Len(matching) > 1)
                  => IsTextResult(Answer, Leaders(matching, TeamOf(args), YearOf(args)))
            /\ ~Truthy(PlayerNameOf(args))
                  => IsTextResult(Answer, Leaders(season, TeamOf(args), YearOf(args)))

----------------------------------------------------------------------------
(* C14 *)

\* Case-insensitively, either name contains the other.
EitherContains(recordName, playerName) ==
    \/ includes(toLowerCase(recordName), toLowerCase(playerName))
    \/ includes(toLowerCase(playerName), toLowerCase(recordName))

\* The shooting_stats tool has been answered from a 200 response carrying an
\* array that is not empty.
ShootingAnswered ==
    /\ ToolAnswered
    /\ req.body.params.name = "get_basketball_shooting_stats"
    /\ snapshot.kind = "response" /\ snapshot.status = 200
    /\ snapshot.body.type = "array"
    /\ Len(snapshot.body.items) > 0

\* C14: in player_stats and in shooting_stats alike, a name extracted from
\* the query finds a record exactly when one name contains the other,
\* whatever the case: the tool answers that the player is not there exactly
\* when no record's name contains, or is contained in, the extracted name.
C14_MatchesEitherWay ==
    LET args == req.body.params.arguments
        playerName == PlayerNameOf(args)
    IN  /\ (PlayerStatsAnswered /\ Truthy(playerName))
              => (IsTextResult(Answer, NotListed(playerName, TeamOf(args), YearOf(args)))
                    <=> ~\E i \in 1..Len(OfSeason(snapshot.body.items, args)) :
                            EitherContains(OfSeason(snapshot.body.items, args)[i].name,
                                           playerName))
        /\ (ShootingAnswered /\ Truthy(playerName))
              => (IsTextResult(Answer, "No shooting stats found for " \o playerName
                                           \o " on " \o toUpperCase(TeamOf(args))
                                           \o " in " \o ToString(YearOf(args)))
                    <=> ~\E i \in 1..Len(snapshot.body.items) :
                            EitherContains(snapshot.body.items[i].player, playerName))

----------------------------------------------------------------------------
(* C15 *)

\* A tool has been answered from a 200 response whose payload is JSON null
\* or an empty array.
EmptyPayloadAnswered ==
    /\ ToolAnswered
    /\ snapshot.kind = "response" /\ snapshot.status = 200
    /\ \/ snapshot.body.type = "null"
       \/ snapshot.body.type = "array" /\ Len(snapshot.body.items) = 0

\* The 'no data found' text of each tool, for the upper-cased team and the year.
NoDataText(name, TEAM, year) ==
    CASE name = "get_basketball_score" ->
            "No basketball games found for " \o TEAM \o " in " \o ToString(year)
      [] name = "get_basketball_player_stats" ->
            "No player stats found for " \o TEAM \o " basketball in the "
                \o ToString(year - 1) \o "-" \o ToString(year) \o " season"
      [] name = "get_basketball_team_stats" ->
            "No team stats found for " \o TEAM \o " basketball in " \o ToString(year)
      [] name = "get_basketball_schedule" ->
            "No schedule found for " \o TEAM \o " basketball in " \o ToString(year)
      [] name = "get_basketball_rankings" ->
            TEAM \o " was not ranked at any point during the " \o ToString(year)
                \o " basketball season."
      [] name = "get_basketball_shooting_stats" ->
            "No shooting stats found for " \o TEAM \o " basketball in " \o ToString(year)
      [] name = "get_basketball_roster" ->
            "No roster found for " \o TEAM \o " basketball in the "
                \o ToString(year - 1) \o "-" \o ToString(year) \o " season"

\* C15: for each of the seven tools, an upstream payload that is absent or
\* an empty array is answered with the tool's 'no data found' text, which
\* names the upper-cased team and the year - not with a season filter's
\* text, a name lookup's text or an error; for get_basketball_score, team
\* 'oklahoma' and year 2024 it is 'No basketball games found for OKLAHOMA in
\* 2024'.
C15_EmptyGuardFirst ==
    EmptyPayloadAnswered =>
        LET name == req.body.params.name
            args == req.body.params.arguments
        IN  /\ Answer.status = HttpOk
            /\ IsTextResult(Answer, NoDataText(name, RequestedTEAM(args), RequestedYear(args)))
            /\ (/\ name = "get_basketball_score"
                /\ TeamOf(args) = "oklahoma"
                /\ YearOf(args) = 2024)
                  => IsTextResult(Answer, "No basketball games found for OKLAHOMA in 2024")

\* The score tool, asked for Oklahoma in 2024, has answered an empty array.
C15_Witness ==
    /\ EmptyPayloadAnswered
    /\ snapshot.body.type = "array"
    /\ req.body.params.name = "get_basketball_score"
    /\ Has(req.body.params.arguments, "team")
    /\ req.body.params.arguments.team = "Oklahoma"
    /\ YearOf(req.body.params.arguments) = 2024
    /\ IsTextResult(Answer, "No basketball games found for OKLAHOMA in 2024")

----------------------------------------------------------------------------
(* C16 *)

\* The lowercase form of the supplied team ('oklahoma' when none is supplied).
SuppliedTeam(args) == IF Has(args, "team") THEN toLowerCase(args.team) ELSE "oklahoma"

\* The handler's answer states y as the year of the current season.
StatesCurrentYear(y) ==
    /\ Has(Answer.body, "result")
    /\ includes(Answer.body.result.content[1].text,
                "The current season is 2025-2026 (year=" \o ToString(y) \o ")")

\* C16: a tools/call that reaches a tool uses the lowercase form of the
\* supplied team in the upstream query, in the ranking match and, upper-cased,
\* in the text; and with no year supplied the year of the upstream query is
\* the current season's: the year the handler itself gives for the current
\* season when it states one.
C16_Normalized ==
    ToolAnswered =>
        LET name == req.body.params.name
            args == req.body.params.arguments
            url == upstream[1].url
        IN  /\ includes(url, "?team=" \o SuppliedTeam(args) \o "&season=")
            /\ EmptyPayloadAnswered
                  => includes(Answer.body.result.content[1].text,
                              toUpperCase(SuppliedTeam(args)))
            /\ (/\ name = "get_basketball_rankings"
                /\ SuppliedTeam(args) = "oklahoma"
                /\ snapshot.kind = "response" /\ snapshot.status = 200
                /\ snapshot.body.type = "array" /\ Len(snapshot.body.items) > 0
                /\ snapshot.body.items[Len(snapshot.body.items)].polls[1].poll
                      = "AP Top 25")
                  => includes(Answer.body.result.content[1].text, "AP Top 25: #12\n")
            /\ ~Has(args, "year")
                  => \A y \in ClockYears :
                        StatesCurrentYear(y)
                            => includes(url, "&season=" \o ToString(y))

----------------------------------------------------------------------------
(* C17 *)

\* C17: an upstream GET has been issued for the request in hand only if the
\* request is not a GET probe, has passed the auth check, is a tools/call,
\* the upstream key is configured and params.name is one of the seven tools;
\* so none is issued for a probe, an unauthorized request, initialize,
\* tools/list, an unknown method, an unknown tool or an unset key.
C17_UpstreamGated ==
    (Len(upstream) > 0 \/ pending # NoFetch)
        => /\ req.method # "GET"
           /\ Authorized(req)
           /\ IsToolsCall(req)
           /\ KeyConfigured
           /\ Has(req.body, "params")
           /\ Has(req.body.params, "name")
           /\ req.body.params.name \in ToolNames
           /\ \A i \in 1..Len(upstream) :
                 /\ upstream[i].tool = req.body.params.name
                 /\ upstream[i].authorization = "Bearer " \o CFBD_BASKETBALL_KEY

\* A fetch is in flight for a call that carried the configured secret.
C17_Witness ==
    /\ pc = "awaiting"
    /\ Truthy(MCP_API_KEY)
    /\ Has(req.headers, "authorization")
    /\ req.headers.authorization = "Bearer " \o MCP_API_KEY
    /\ Len(upstream) = 1
    /\ upstream[1].tool = "get_basketball_team_stats"
====
